---- MODULE Spec2Model ----
(***************************************************************************)
(* The dependency-update agent of agent_logic.py (class DependencyAgent)   *)
(* as a state machine: one run of run(), split at the calls it makes       *)
(* (health check, pass planning, attempt, oracle query, Stage 1 candidate, *)
(* Stage 2 probe, pass commit, final summary).                             *)
(*                                                                         *)
(* Versions are modelled by their rank in the PEP 440 order (1 < 2 < ...); *)
(* rank r stands for release Major(r).Minor(r).  0 in a version slot       *)
(* stands for text that is not a version.  A requirement line is a record  *)
(* [kind, name, ver]; a file is its line list plus whether its last line   *)
(* ends with a newline.                                                    *)
(*                                                                         *)
(* Two functions are also run on their own: _prune_pip_freeze (PruneSpec)  *)
(* and reconcile_requirements of reconcile.py (ReconcileSpec).             *)
(***************************************************************************)
EXTENDS Integers, Sequences, FiniteSets, TLC

MaxVer == 3

MAX_RUN_PASSES == 5

Ver == 1..MaxVer

\* a text that holds "skipped" ("Validation skipped (no change)", or the
\* validator's metrics) when it lands in a version slot
NoChangeText == 0

\* text in a version slot that parse_version does not take for a version,
\* as in "a==stable" or in the oracle's reply "['stable']"
NotAVersion == 0

\* project names that occur at the head of requirement lines
Names == {"a", "a.x", "b"}

\* names the agent can extract and look up
Heads == {"a", "b"}

PinLine(n, v) == [kind |-> "pin", name |-> n, ver |-> v]

EditLine == [kind |-> "edit", name |-> "-e", ver |-> 0]

ReqLine(n) == [kind |-> "req", name |-> n, ver |-> 0]

\* a direct reference whose URL holds "==": "b @ https://host/b-1.whl?sig=x=="
UrlLine(n) == [kind |-> "url", name |-> n, ver |-> 1]

NoFile == [lines |-> <<>>, nl |-> FALSE, exists |-> FALSE]

File(ls, nl) == [lines |-> ls, nl |-> nl, exists |-> TRUE]

EmptyEnv == [pins |-> [n \in Names |-> 0], edit |-> FALSE, direct |-> {}]

EmptyMap == [x \in {} |-> 0]

\* METRICS_OUTPUT_FILE does not exist
NoMetricsFile == [exists |-> FALSE, text |-> ""]

\* metrics texts of the validator: the smoke test's line, a text that
\* holds "not available", and one that holds "skipped"
MetricsTexts ==
    {"ALL TESTS PASSED", "Coverage not available", "2 passed, 1 skipped"}

\* "not available" in metrics
HasNotAvailable(m) == m = "Coverage not available"

\* no version-candidates query made yet
NoQuery == [pass |-> 0, idx |-> 0, io |-> FALSE, latched |-> FALSE,
            reply |-> [kind |-> "none", list |-> <<>>]]

\* nothing printed
NoSummary == [printed |-> FALSE, successful |-> {}, failed |-> {}]

VARIABLES
    requirements,      \* the authoritative manifest file (REQUIREMENTS_FILE)
    pass_baseline,     \* the per-pass snapshot file pass_N_baseline_reqs.txt
    temp_venv,         \* contents of ./temp_venv
    pc,                \* position in run()
    pass_num,
    packages_to_update, \* the plan of the pass, sorted
    idx,               \* index of the plan entry being processed
    changed_packages_this_pass,
    pass_successful_updates,
    final_successful_updates,
    final_failed_updates,
    llm_available,
    metrics_file,      \* METRICS_OUTPUT_FILE: [exists, text]
    oracle_query,      \* the last version-candidates query made to the oracle
    summary,           \* what _print_final_summary printed
    version_candidates, \* oracle suggestions still to try (Stage 1)
    versions,          \* Stage 2 versions still to probe, highest first
    \* the world outside the agent, fixed for a run
    pypi,              \* registry: name -> [stable, pre]
    uninstallable,     \* pins whose presence makes pip install fail
    invalid,           \* pins whose presence makes the validator fail
    clash,             \* "none" | "install" | "validate": a>=2 with b>=2
    primary_packages,
    usage_scores,
    metrics,           \* the metrics text of a validation that passes
    summary_quota,     \* the error-summary queries meet quota exhaustion
    legacy_versions,   \* packaging < 22: parse_version gives a LegacyVersion,
                       \* below every version, for text that is no version;
                       \* otherwise it raises InvalidVersion
    \* history
    attempts,          \* the tries of the current pass, in order
    pre_run,           \* the manifest when the pass loop was entered
    pass_start,        \* the manifest when the current pass began
    commit,            \* what the last pass commit did
    health,            \* results of the health checks so far
    heal,              \* outcome of the last finished healing
    \* _prune_pip_freeze applied on its own
    freeze_output,     \* the text given to it first, as lines
    pruned,            \* what it returned, call after call
    \* reconcile_requirements of reconcile.py run on its own
    golden_record,     \* requirements.txt, as reconcile.py reads and writes it
    ideal_state,       \* temp-ideal-state.txt
    golden_before      \* requirements.txt when reconcile_requirements began

vars == <<requirements, pass_baseline, temp_venv, pc, pass_num,
          packages_to_update, idx, changed_packages_this_pass,
          pass_successful_updates, final_successful_updates,
          final_failed_updates, llm_available, oracle_query, summary,
          version_candidates, versions, pypi, uninstallable, invalid, clash, primary_packages, usage_scores,
          attempts, pre_run, pass_start, commit, health, heal,
          freeze_output, pruned, metrics_file, metrics, summary_quota,
          legacy_versions, golden_record, ideal_state, golden_before>>

prune_io == <<freeze_output, pruned>>

reconcile_io == <<golden_record, ideal_state, golden_before>>

world == <<pypi, uninstallable, invalid, clash, primary_packages, usage_scores,
           metrics, summary_quota, legacy_versions>>

----------------------------------------------------------------------------
\* Text helpers

\* re.match(r'([a-zA-Z0-9\-_]+)', spec_line): the match stops at '.', '[', '='
\* and ' ', so "a.x==1" yields "a" and "-e ." yields "-e".
get_package_name_from_spec(l) ==
    IF l.kind = "edit" THEN "-e"
    ELSE IF l.name = "a.x" THEN "a"
    ELSE l.name

\* '==' in line
HasEq(l) == l.kind \in {"pin", "url", "note"}

\* line.startswith('-e')
StartsWithE(l) == l.kind = "edit"

\* a line of pip freeze without "==": "b @ file:///wheels/b-1.whl"
DirectLine(n) == [kind |-> "direct", name |-> n, ver |-> 1]

\* "# Editable install with no version control (a==1)", which pip freeze
\* prints before the "-e" line of such an install
NoteLine(n) == [kind |-> "note", name |-> n, ver |-> 1]

\* the empty line
BlankLine == [kind |-> "blank", name |-> "", ver |-> 0]

\* pinned_pattern ^[a-zA-Z0-9\-_\[\]\.]+==.+$
pinned_pattern(l) == l.kind = "pin"

is_unpinned(l) ==
    IF StartsWithE(l) THEN FALSE
    ELSE IF pinned_pattern(l) THEN FALSE
    ELSE TRUE

\* _get_requirements_state()[0]
is_fully_pinned(f) == ~ \E i \in 1..Len(f.lines) : is_unpinned(f.lines[i])

\* str.strip() on a text given as lines: the blank lines at both ends go
RECURSIVE StripLeft(_)
StripLeft(ls) ==
    IF ls # <<>> /\ Head(ls) = BlankLine THEN StripLeft(Tail(ls)) ELSE ls

RECURSIVE StripRight(_)
StripRight(ls) ==
    IF ls # <<>> /\ ls[Len(ls)] = BlankLine
    THEN StripRight(SubSeq(ls, 1, Len(ls) - 1))
    ELSE ls

\* a pruning that only drops the empty lines
prune_keeping_all(ls) == SelectSeq(ls, LAMBDA l : l # BlankLine)

\* _prune_pip_freeze: strip the text, split it at "\n", keep the lines that
\* hold "==" or start with "-e", join them with "\n"
prune_pip_freeze(ls) ==
    SelectSeq(StripRight(StripLeft(ls)),
              LAMBDA l : (HasEq(l) /\ ~StartsWithE(l)) \/ StartsWithE(l))

SetMax(S) == CHOOSE x \in S : \A y \in S : y <= x

SetMin(S) == CHOOSE x \in S : \A y \in S : x <= y

RECURSIVE SortedSeq(_)
SortedSeq(S) ==
    IF S = {} THEN <<>> ELSE <<SetMin(S)>> \o SortedSeq(S \ {SetMin(S)})

RECURSIVE Reverse(_)
Reverse(s) == IF s = <<>> THEN <<>> ELSE Reverse(Tail(s)) \o <<Head(s)>>

InSeq(x, s) == \E i \in 1..Len(s) : s[i] = x

Major(v) == (v + 1) \div 2

Minor(v) == (v + 1) % 2

----------------------------------------------------------------------------
\* The registry (pypi_simple), the installer (pip) and the validator

get_latest_version(name) ==
    IF name \notin DOMAIN pypi THEN 0
    ELSE IF pypi[name].stable # {} THEN SetMax(pypi[name].stable)
    ELSE IF pypi[name].pre # {} THEN SetMax(pypi[name].pre)
    ELSE 0

get_all_versions_between(name, start_v, end_v) ==
    IF name \notin DOMAIN pypi \/ pypi[name].stable \cup pypi[name].pre = {}
    THEN <<>>
    ELSE SortedSeq({v \in pypi[name].stable : start_v <= v /\ v < end_v})

\* a>=2 and b>=2 installed together
Clash(env) == env.pins["a"] >= 2 /\ env.pins["b"] >= 2

\* what "pip install -r" resolves a requirement line to
Resolved(l) ==
    IF l.kind \in {"pin", "url"} THEN l.ver
    ELSE get_latest_version(l.name)

\* pip install -r <lines> into an environment holding env:
\* [ok, env].  It fails on a line that is no requirement ("a==Validation
\* skipped (no change)", an unknown project), on two different pins of one
\* project, on an uninstallable pin and on an install-time clash.  conflict:
\* the failure is a resolver conflict, which the verbose retry reports as
\* "Cannot install ... because".
Install(env, ls) ==
    LET reqs == {i \in 1..Len(ls) : ls[i].kind \in {"pin", "req", "url"}}
        wellformed == \A i \in reqs : Resolved(ls[i]) \in Ver
        double == \E i, j \in reqs :
                     ls[i].name = ls[j].name /\ Resolved(ls[i]) # Resolved(ls[j])
        after == [pins |-> [n \in Names |->
                              IF \E i \in reqs : ls[i].name = n
                              THEN Resolved(ls[CHOOSE i \in reqs : ls[i].name = n])
                              ELSE env.pins[n]],
                  edit |-> env.edit \/ \E i \in 1..Len(ls) : ls[i].kind = "edit",
                  direct |-> {n \in Names :
                                IF \E i \in reqs : ls[i].name = n
                                THEN \E i \in reqs : /\ ls[i].name = n
                                                      /\ ls[i].kind = "url"
                                ELSE n \in env.direct}]
        good == /\ wellformed
                /\ ~double
                /\ \A n \in Names : <<n, after.pins[n]>> \notin uninstallable
                /\ ~(clash = "install" /\ Clash(after))
    IN  [ok |-> good, env |-> IF good THEN after ELSE env,
         conflict |-> /\ wellformed
                      /\ double \/ (clash = "install" /\ Clash(after))]

\* validate_changes(python_executable, config)[0]
Validate(env) ==
    /\ \A n \in Names : <<n, env.pins[n]>> \notin invalid
    /\ ~(clash = "validate" /\ Clash(env))

PinOf(env, n) ==
    IF env.pins[n] = 0 THEN <<>>
    ELSE IF n \in env.direct THEN <<UrlLine(n)>>
    ELSE <<PinLine(n, env.pins[n])>>

\* pip freeze: one line per installed project, sorted by name; a project
\* installed from a direct reference is printed as "name @ url"
Freeze(env) ==
    (IF env.edit THEN <<EditLine>> ELSE <<>>)
        \o PinOf(env, "a") \o PinOf(env, "a.x") \o PinOf(env, "b")

\* a fresh install of a manifest followed by the validator
Healthy(f) ==
    LET inst == Install(EmptyEnv, f.lines) IN inst.ok /\ Validate(inst.env)

----------------------------------------------------------------------------
\* The attempt engine

\* shutil.rmtree(venv_dir); venv.create(venv_dir): what the old contents
\* of ./temp_venv become before an install
FreshVenv(old) == EmptyEnv

\* the trial manifest of _try_install_and_validate: every non-comment line
\* whose extracted name equals the package becomes "package==new_version"
TrialLines(baseline, package, new_version) ==
    [i \in 1..Len(baseline.lines) |->
        IF get_package_name_from_spec(baseline.lines[i]) = package
        THEN PinLine(package, new_version)
        ELSE baseline.lines[i]]

\* old_version = line.split('==')[1] of the last line of the raw file whose
\* extracted name is the package; the text keeps the line's "\n", so it can
\* equal new_version only on a last line that has no newline.
SameAsOldVersion(baseline, package, new_version) ==
    LET hits == {i \in 1..Len(baseline.lines) :
                    /\ get_package_name_from_spec(baseline.lines[i]) = package
                    /\ HasEq(baseline.lines[i])}
    IN  /\ hits # {}
        /\ SetMax(hits) = Len(baseline.lines)
        /\ ~baseline.nl
        /\ baseline.lines[SetMax(hits)].ver = new_version

\* faulty variant: success as soon as the install succeeds, the validator
\* never run
try_without_validation(package, new_version, baseline, changed_packages) ==
    CHOOSE t \in
        {[package |-> package, version |-> new_version,
          fresh |-> (FreshVenv(temp_venv) = EmptyEnv),
          lines |-> TrialLines(baseline, package, new_version),
          installed |-> inst.ok, validated |-> FALSE,
          ok |-> inst.ok,
          data |-> IF ~inst.ok THEN "Installation conflict" ELSE metrics,
          asked |-> ~inst.ok /\ ~inst.conflict /\ llm_available,
          summary |-> "none",
          env |-> inst.env] :
            inst \in {Install(FreshVenv(temp_venv),
                              TrialLines(baseline, package, new_version))}} : TRUE

\* what _try_install_and_validate returns once pip has run with outcome
\* inst (lines 313-343).  asked: the install log was sent to the oracle for
\* a summary (lines 323-325, 463-469).
try_outcome(package, new_version, baseline, changed_packages, inst) ==
    LET skip == inst.ok /\ SameAsOldVersion(baseline, package, new_version)
                        /\ changed_packages = {}
        ran == inst.ok /\ ~skip
        valid == ran /\ Validate(inst.env)
    IN  [package |-> package, version |-> new_version,
         fresh |-> (FreshVenv(temp_venv) = EmptyEnv),
         lines |-> TrialLines(baseline, package, new_version),
         installed |-> inst.ok, validated |-> ran,
         ok |-> skip \/ valid,
         data |-> IF ~inst.ok THEN "Installation conflict"
                  ELSE IF skip THEN "Validation skipped (no change)"
                  ELSE IF valid THEN metrics
                  ELSE "Validation script failed",
         asked |-> ~inst.ok /\ ~inst.conflict /\ llm_available,
         summary |-> "none",
         env |-> inst.env]

\* _try_install_and_validate: the record of one try; the install runs once
try_install_and_validate(package, new_version, baseline, changed_packages) ==
    CHOOSE t \in
        {try_outcome(package, new_version, baseline, changed_packages, inst) :
            inst \in {Install(FreshVenv(temp_venv),
                              TrialLines(baseline, package, new_version))}} : TRUE

\* _ask_llm_to_summarize_error for the try t: when the try asked for a
\* summary, generate_content returns a text or raises ResourceExhausted;
\* either way a text comes back and llm_available is left as it is
ask_llm_to_summarize_error(t) ==
    [t EXCEPT !.summary = IF ~t.asked THEN "none"
                          ELSE IF summary_quota THEN "quota"
                          ELSE "text"]

\* "skipped" in str(result_data)
SaysSkipped(data) ==
    data \in {"Validation skipped (no change)", "2 passed, 1 skipped"}

----------------------------------------------------------------------------
\* Planning

semver_severity(old_v, new_v) ==
    IF old_v \notin Ver \/ new_v \notin Ver THEN 1
    ELSE IF Major(new_v) > Major(old_v) THEN 3
    ELSE IF Minor(new_v) > Minor(old_v) THEN 2
    ELSE 1

calculate_update_risk(e) ==
    LET usage == IF e.package \in DOMAIN usage_scores
                 THEN usage_scores[e.package] ELSE 0
        is_primary == IF e.package \in primary_packages THEN 1 ELSE 0
    IN  usage * 5 + is_primary * 3 + semver_severity(e.current, e.target) * 2

\* the candidates of a pass, in file order (run, lines 143-161)
RECURSIVE Candidates(_)
Candidates(ls) ==
    IF ls = <<>> THEN <<>>
    ELSE LET l == Head(ls)
             package == get_package_name_from_spec(l)
             latest == get_latest_version(package)
         IN  (IF HasEq(l) /\ latest # 0 /\ latest > l.ver
              THEN <<[package |-> package, current |-> l.ver, target |-> latest]>>
              ELSE <<>>) \o Candidates(Tail(ls))

\* the loop of lines 147-161 reaches parse_version(current_version) on a
\* line whose version text is not a version: the line holds "==" and the
\* registry has a latest version for its name
ComparesNotAVersion(ls) ==
    \E i \in 1..Len(ls) :
        /\ HasEq(ls[i])
        /\ get_latest_version(get_package_name_from_spec(ls[i])) # 0
        /\ ls[i].ver \notin Ver

\* a plan left in manifest order
SortByRisk_unsorted(s) == s

\* list.sort(key=risk, reverse=True): stable, highest risk first.  The
\* place of s[i] in the result is one more than the number of entries that
\* go before it: those of higher risk and those of equal risk that stand
\* earlier in s.
SortByRisk(s) ==
    LET before(i) == {j \in 1..Len(s) :
                        \/ calculate_update_risk(s[j]) > calculate_update_risk(s[i])
                        \/ /\ calculate_update_risk(s[j]) = calculate_update_risk(s[i])
                           /\ j < i}
    IN  [k \in 1..Len(s) |->
            s[CHOOSE i \in 1..Len(s) : Cardinality(before(i)) = k - 1]]

Entry == packages_to_update[idx]

----------------------------------------------------------------------------
\* Recording the outcome of attempt_update_with_healing in run()
\* (lines 191-197) and moving to the next plan entry

Advance ==
    /\ idx' = idx + 1
    /\ pc' = IF idx + 1 > Len(packages_to_update) THEN "commit" ELSE "attempt"
    /\ version_candidates' = <<>>
    /\ versions' = <<>>

RecordSuccess(reason) ==
    /\ final_successful_updates' =
          (Entry.package :> [target |-> Entry.target, reached |-> reason])
              @@ final_successful_updates
    /\ pass_successful_updates' = (Entry.package :> reason) @@ pass_successful_updates
    /\ changed_packages_this_pass' =
          IF Entry.current # reason
          THEN changed_packages_this_pass \cup {Entry.package}
          ELSE changed_packages_this_pass
    /\ heal' = [pass |-> pass_num, idx |-> idx, ok |-> TRUE, reason |-> reason,
                text |-> "", changed |-> changed_packages_this_pass]
    /\ UNCHANGED final_failed_updates
    /\ Advance

RecordFailure(text) ==
    /\ final_failed_updates' =
          (Entry.package :> [target |-> Entry.target, reason |-> text])
              @@ final_failed_updates
    /\ heal' = [pass |-> pass_num, idx |-> idx, ok |-> FALSE, reason |-> 0,
                text |-> text, changed |-> changed_packages_this_pass]
    /\ UNCHANGED <<final_successful_updates, pass_successful_updates,
                   changed_packages_this_pass>>
    /\ Advance

Logged(t, stage) ==
    [pass |-> pass_num, idx |-> idx, stage |-> stage, package |-> t.package,
     version |-> t.version, fresh |-> t.fresh, lines |-> t.lines,
     installed |-> t.installed, validated |-> t.validated, ok |-> t.ok,
     data |-> t.data, asked |-> t.asked, summary |-> t.summary,
     latched |-> ~llm_available, changed |-> changed_packages_this_pass,
     skip_rule |-> /\ SameAsOldVersion(pass_baseline, t.package, t.version)
                   /\ changed_packages_this_pass = {},
     valid |-> t.installed /\ Validate(t.env)]

----------------------------------------------------------------------------
\* Initial states: a manifest on disk and a world

Manifests ==
    { <<>>,
      <<EditLine>>,
      <<PinLine("a", 1)>>,
      <<PinLine("a", 1), PinLine("b", 1)>>,
      <<EditLine, PinLine("b", 1)>>,
      <<PinLine("a", 1), PinLine("a.x", MaxVer)>>,
      <<PinLine("a", 2), PinLine("a.x", 1)>>,
      <<ReqLine("b")>>,
      <<UrlLine("b")>>,
      <<PinLine("a", NotAVersion), PinLine("b", 1)>> }

\* releases of "a" on the registry; "b" always has releases 1 and 2
Registries ==
    { [stable |-> Ver, pre |-> {}],
      [stable |-> {1, MaxVer}, pre |-> Ver \ {1, MaxVer}],
      [stable |-> Ver \ {1}, pre |-> {}],
      [stable |-> {}, pre |-> {}] }

HasHead(ls, h) == \E i \in 1..Len(ls) : get_package_name_from_spec(ls[i]) = h

\* pins whose install or validation the world may break: releases of the
\* packages of the manifest; the pinned release of "a" only when "a" is the
\* only package
Fragile(ls) ==
    {p \in (Heads \X Ver) :
        /\ HasHead(ls, p[1])
        /\ p[1] = "b" => p[2] = 2
        /\ Len(ls) > 1 => p[2] > 1}

\* reconcile.py has no part in a run of the agent
NothingReconciled ==
    /\ golden_record = NoFile
    /\ ideal_state = NoFile
    /\ golden_before = NoFile

\* the agent's own state and the history before run() has done anything
NothingDoneYet ==
    /\ pass_baseline = NoFile
    /\ temp_venv = EmptyEnv
    /\ pass_num = 0
    /\ packages_to_update = <<>>
    /\ idx = 0
    /\ changed_packages_this_pass = {}
    /\ pass_successful_updates = EmptyMap
    /\ final_successful_updates = EmptyMap
    /\ final_failed_updates = EmptyMap
    /\ llm_available = TRUE
    /\ oracle_query = NoQuery
    /\ summary = NoSummary
    /\ version_candidates = <<>>
    /\ versions = <<>>
    /\ attempts = <<>>
    /\ pre_run = NoFile
    /\ pass_start = NoFile
    /\ commit = [status |-> "none", lines |-> <<>>, env |-> EmptyEnv,
                 updates |-> EmptyMap, pass |-> 0]
    /\ health = <<>>
    /\ heal = [pass |-> 0, idx |-> 0, ok |-> FALSE, reason |-> 0, text |-> "",
               changed |-> {}]

Init ==
    /\ \E ls \in Manifests, nl \in BOOLEAN :
          /\ requirements = File(ls, nl)
          /\ (ls = <<>> => ~nl)
          /\ \E ra \in Registries :
                /\ pypi = [h \in Heads |->
                             IF h = "a" THEN ra ELSE [stable |-> {1, 2}, pre |-> {}]]
                /\ (ls \notin {<<PinLine("a", 1)>>,
                                <<PinLine("a", 1), PinLine("b", 1)>>}
                        => ra.stable = Ver)
                /\ (ls = <<PinLine("a", 1), PinLine("b", 1)>>
                        => ra.stable \in {Ver, {1, MaxVer}})
          /\ uninstallable \in SUBSET Fragile(ls)
          /\ invalid \in SUBSET (Fragile(ls) \ uninstallable)
          /\ clash \in {"none", "install", "validate"}
          /\ primary_packages \in {{}, {"b"}, {"B"}}
          /\ (clash # "none" \/ primary_packages # {}
                => ls = <<PinLine("a", 1), PinLine("b", 1)>>)
          /\ (clash # "none" => primary_packages = {})
          /\ (pypi["a"].pre # {} /\ Len(ls) > 1
                => primary_packages = {"b"} /\ uninstallable = {})
          /\ usage_scores \in {[h \in Heads |-> 0],
                                [h \in Heads |-> IF h = "a" THEN 1 ELSE 0]}
          /\ (usage_scores["a"] # 0
                => /\ primary_packages = {"b"}
                   /\ pypi["a"].pre = {}
                   /\ uninstallable = {})
          /\ metrics \in MetricsTexts
          /\ metrics_file \in {NoMetricsFile,
                                [exists |-> TRUE, text |-> "metrics of an earlier run"]}
          /\ (metrics # "ALL TESTS PASSED" \/ metrics_file.exists
                => /\ ls \in {<<ReqLine("b")>>, <<EditLine, PinLine("b", 1)>>}
                   /\ ~nl)
          /\ legacy_versions \in BOOLEAN
          /\ (legacy_versions
                => ls \in {<<PinLine("a", 1)>>,
                            <<PinLine("a", NotAVersion), PinLine("b", 1)>>})
          /\ (ls = <<PinLine("a", NotAVersion), PinLine("b", 1)>>
                => /\ uninstallable = {}
                   /\ primary_packages = {}
                   /\ clash = "none"
                   /\ ~nl)
          /\ summary_quota \in BOOLEAN
          /\ (summary_quota
                => /\ ls = <<PinLine("a", 1)>>
                   /\ ~nl
                   /\ pypi["a"].stable = Ver
                   /\ uninstallable # {})
    /\ pc = "start"
    /\ NothingDoneYet
    /\ freeze_output = <<>>
    /\ pruned = <<>>
    /\ NothingReconciled

\* _run_final_health_check: fresh ./final_venv, install, validate
HealthCheck(at) ==
    CHOOSE h \in
        {[at |-> at, pass |-> pass_num, installed |-> inst.ok,
          valid |-> inst.ok /\ Validate(inst.env)] :
            inst \in {Install(EmptyEnv, requirements.lines)}} : TRUE

----------------------------------------------------------------------------
\* run(), lines 121-135

RunBegin ==
    /\ pc = "start"
    /\ metrics_file' = NoMetricsFile
    /\ pc' = IF is_fully_pinned(requirements) THEN "health" ELSE "bootstrap"
    /\ UNCHANGED <<requirements, pass_baseline, temp_venv, pass_num,
                   packages_to_update, idx, changed_packages_this_pass,
                   pass_successful_updates, final_successful_updates,
                   final_failed_updates, llm_available, version_candidates,
                   versions, world, prune_io, reconcile_io, oracle_query,
                   summary, attempts, pre_run, pass_start, commit,
                   health, heal>>

\* a bootstrap that freezes whatever it managed to install
bootstrap_without_validation(f) ==
    CHOOSE r \in
        {[ok |-> inst.ok,
          file |-> IF inst.ok
                   THEN File(prune_pip_freeze(Freeze(inst.env)), FALSE)
                   ELSE f,
          saved |-> inst.ok /\ Validate(inst.env) /\ metrics # ""
                      /\ ~HasNotAvailable(metrics)] :
            inst \in {Install(EmptyEnv, f.lines)}} : TRUE

\* _bootstrap_unpinned_requirements on the manifest f: fresh
\* ./bootstrap_venv, install, validate, then write the pruned freeze;
\* ok is FALSE when it exits; saved: it wrote the metrics to
\* METRICS_OUTPUT_FILE (lines 116-118). [ok, file, saved]
bootstrap_unpinned_requirements(f) ==
    CHOOSE r \in
        {[ok |-> inst.ok /\ Validate(inst.env),
          file |-> IF inst.ok /\ Validate(inst.env)
                   THEN File(prune_pip_freeze(Freeze(inst.env)), FALSE)
                   ELSE f,
          saved |-> inst.ok /\ Validate(inst.env) /\ metrics # ""
                      /\ ~HasNotAvailable(metrics)] :
            inst \in {Install(EmptyEnv, f.lines)}} : TRUE

\* _bootstrap_unpinned_requirements and the re-check of lines 127-129
Bootstrap ==
    /\ pc = "bootstrap"
    /\ \E r \in {bootstrap_unpinned_requirements(requirements)} :
          /\ requirements' = r.file
          /\ metrics_file' = IF r.saved THEN [exists |-> TRUE, text |-> metrics]
                             ELSE metrics_file
          /\ pc' = IF r.ok /\ is_fully_pinned(r.file) THEN "health"
                   ELSE "aborted"
    /\ UNCHANGED <<pass_baseline, temp_venv, pass_num,
                   packages_to_update, idx, changed_packages_this_pass,
                   pass_successful_updates, final_successful_updates,
                   final_failed_updates, llm_available, version_candidates,
                   versions, world, prune_io, reconcile_io, oracle_query,
                   summary, attempts, pre_run, pass_start, commit,
                   health, heal>>

\* the health check on entry, line 135
EntryHealthCheck ==
    /\ pc = "health"
    /\ health' = Append(health, HealthCheck("entry"))
    /\ pre_run' = requirements
    /\ pc' = "pass"
    /\ UNCHANGED <<requirements, pass_baseline, temp_venv, pass_num,
                   packages_to_update, idx, changed_packages_this_pass,
                   pass_successful_updates, final_successful_updates,
                   final_failed_updates, llm_available, version_candidates,
                   versions, world, prune_io, reconcile_io, metrics_file, oracle_query,
                   summary, attempts, pass_start, commit, heal>>

\* the head of one pass, lines 136-183: snapshot, plan, sort
PassBegin ==
    /\ pc = "pass"
    /\ pass_num' = pass_num + 1
    /\ pass_start' = requirements
    /\ attempts' = <<>>
    /\ commit' = [status |-> "none", lines |-> <<>>, env |-> EmptyEnv,
                  updates |-> EmptyMap, pass |-> pass_num + 1]
    /\ \E candidates \in {Candidates(requirements.lines)} :
       \E plan \in {SortByRisk(candidates)} :
           IF ~legacy_versions /\ ComparesNotAVersion(requirements.lines)
           THEN \* parse_version(current_version) raises InvalidVersion out
                \* of run() (line 160)
                /\ pass_baseline' = requirements
                /\ packages_to_update' = <<>>
                /\ idx' = 0
                /\ pc' = "crashed"
                /\ UNCHANGED <<changed_packages_this_pass,
                               pass_successful_updates, health>>
           ELSE IF plan = <<>>
           THEN /\ health' = IF pass_num + 1 = 1
                             THEN Append(health, HealthCheck("up-to-date"))
                             ELSE health
                /\ pass_baseline' = NoFile
                /\ packages_to_update' = <<>>
                /\ idx' = 0
                /\ pc' = "finish"
                /\ UNCHANGED <<changed_packages_this_pass, pass_successful_updates>>
           ELSE /\ pass_baseline' = requirements
                /\ packages_to_update' = plan
                /\ idx' = 1
                /\ changed_packages_this_pass' = {}
                /\ pass_successful_updates' = EmptyMap
                /\ pc' = "attempt"
                /\ UNCHANGED health
    /\ UNCHANGED <<requirements, temp_venv, final_successful_updates,
                   final_failed_updates, llm_available, version_candidates,
                   versions, world, prune_io, reconcile_io, metrics_file, oracle_query,
                   summary, pre_run, heal>>

----------------------------------------------------------------------------
\* attempt_update_with_healing

\* the first try, at the target (lines 348-358)
AttemptTarget ==
    /\ pc = "attempt"
    /\ \E t \in {ask_llm_to_summarize_error(
              try_install_and_validate(Entry.package, Entry.target,
                                           pass_baseline,
                                           changed_packages_this_pass))} :
           /\ attempts' = Append(attempts, Logged(t, "target"))
           /\ temp_venv' = t.env
           /\ IF t.ok
              THEN RecordSuccess(IF SaysSkipped(t.data) THEN NoChangeText
                                 ELSE Entry.target)
              ELSE /\ pc' = "oracle"
                   /\ UNCHANGED <<idx, changed_packages_this_pass,
                                  pass_successful_updates,
                                  final_successful_updates, final_failed_updates,
                                  version_candidates, versions, heal>>
    /\ UNCHANGED <<requirements, pass_baseline, pass_num, packages_to_update,
                   llm_available, world, prune_io, reconcile_io, metrics_file, oracle_query,
                   summary, pre_run, pass_start, commit, health>>

\* replies of the oracle to the version-candidates query
MaxReply == 2

\* an item of the reply's list that is not a string, as in "[1, 2]"
NotAString == -1

Descending(s) == \A i \in 1..(Len(s) - 1) : s[i] > s[i + 1]

OracleLists ==
    {s \in UNION {[1..n -> Ver] : n \in 1..MaxReply} : Descending(s)}

\* the number of versions the prompt asks for
MAX_LLM_BACKTRACK_ATTEMPTS == 3

\* a reply that lists one version more than asked for, all of them
\* spellings of release 1.1 ("1.1", "1.1.0", "1.01", "1.1.0.0")
LongList == [k \in 1..(MAX_LLM_BACKTRACK_ATTEMPTS + 1) |-> 2]

\* "quota": generate_content raises ResourceExhausted; "malformed": the text
\* has no bracketed literal or the literal does not parse; "list": the
\* literal is a list, of version strings or of one item that is no string
OracleReplies ==
    {[kind |-> "quota", list |-> <<>>], [kind |-> "malformed", list |-> <<>>]}
        \cup {[kind |-> "list", list |-> s] : s \in OracleLists}
        \cup {[kind |-> "list", list |-> <<NotAString>>]}
        \cup {[kind |-> "list", list |-> LongList]}
        \cup {[kind |-> "list", list |-> <<NotAVersion>>]}

\* _ask_llm_for_version_candidates: [candidates, llm_available afterwards]
\* faulty variant: the flag is not looked at before the oracle is called
ask_llm_ignoring_latch(reply) ==
    IF reply.kind = "quota" THEN [list |-> <<>>, available |-> FALSE, io |-> TRUE]
    ELSE IF reply.kind = "malformed"
         THEN [list |-> <<>>, available |-> TRUE, io |-> TRUE]
    ELSE [list |-> reply.list, available |-> TRUE, io |-> TRUE]

\* io: generate_content was called
ask_llm_for_version_candidates(reply) ==
    IF ~llm_available THEN [list |-> <<>>, available |-> FALSE, io |-> FALSE]
    ELSE IF reply.kind = "quota"
         THEN [list |-> <<>>, available |-> FALSE, io |-> TRUE]
    ELSE IF reply.kind = "malformed"
         THEN [list |-> <<>>, available |-> TRUE, io |-> TRUE]
    ELSE [list |-> reply.list, available |-> TRUE, io |-> TRUE]

\* the oracle query of line 360 and the test of line 361
AskOracle ==
    /\ pc = "oracle"
    /\ \E reply \in OracleReplies :
          LET r == ask_llm_for_version_candidates(reply)
          IN  /\ version_candidates' = r.list
              /\ llm_available' = r.available
              /\ oracle_query' = [pass |-> pass_num, idx |-> idx, io |-> r.io,
                                  latched |-> ~llm_available,
                                  reply |-> IF r.io THEN reply
                                            ELSE [kind |-> "none", list |-> <<>>]]
              /\ pc' = IF r.list # <<>> THEN "llm" ELSE "bs"
    /\ UNCHANGED <<requirements, pass_baseline, temp_venv, pass_num,
                   packages_to_update, idx, changed_packages_this_pass,
                   pass_successful_updates, final_successful_updates,
                   final_failed_updates, versions, world, prune_io, reconcile_io, metrics_file, summary, attempts, pre_run,
                   pass_start, commit, health, heal>>

\* one turn of the loop over the oracle's suggestions (lines 362-370)
TryCandidate ==
    /\ pc = "llm"
    /\ version_candidates # <<>>
    /\ \E candidate \in {Head(version_candidates)},
          rest \in {Tail(version_candidates)} :
       \E t \in {ask_llm_to_summarize_error(
              try_install_and_validate(Entry.package, candidate,
                                           pass_baseline,
                                           changed_packages_this_pass))} :
           IF candidate = NotAString
                \/ (candidate = NotAVersion /\ ~legacy_versions)
           THEN \* parse_version(candidate) raises TypeError, or
                \* InvalidVersion, out of run()
                /\ pc' = "crashed"
                /\ UNCHANGED <<version_candidates, attempts, temp_venv, idx,
                               versions, changed_packages_this_pass,
                               pass_successful_updates, final_successful_updates,
                               final_failed_updates, heal>>
           ELSE IF candidate <= Entry.current
           THEN /\ version_candidates' = rest
                /\ pc' = IF rest = <<>> THEN "bs" ELSE "llm"
                /\ UNCHANGED <<attempts, temp_venv, idx, versions,
                               changed_packages_this_pass, pass_successful_updates,
                               final_successful_updates, final_failed_updates, heal>>
           ELSE /\ attempts' = Append(attempts, Logged(t, "oracle"))
                /\ temp_venv' = t.env
                /\ IF t.ok
                   THEN RecordSuccess(candidate)
                   ELSE /\ version_candidates' = rest
                        /\ pc' = IF rest = <<>> THEN "bs" ELSE "llm"
                        /\ UNCHANGED <<idx, versions, changed_packages_this_pass,
                                       pass_successful_updates,
                                       final_successful_updates,
                                       final_failed_updates, heal>>
    /\ UNCHANGED <<requirements, pass_baseline, pass_num, packages_to_update,
                   llm_available, world, prune_io, reconcile_io, metrics_file, oracle_query,
                   summary, pre_run, pass_start, commit, health>>

\* faulty variant: the last good version is not put in front of the list
backtrack_versions_unanchored(package, last_good_version, failed_version) ==
    get_all_versions_between(package, last_good_version, failed_version)

\* the versions Stage 2 probes, lowest first (lines 384-386)
backtrack_versions(package, last_good_version, failed_version) ==
    LET between == get_all_versions_between(package, last_good_version,
                                            failed_version)
    IN  IF ~InSeq(last_good_version, between)
        THEN <<last_good_version>> \o between
        ELSE between

\* faulty variant: the list is walked lowest first
probe_order_ascending(vs) == vs

\* for test_version in reversed(versions)
probe_order(vs) == Reverse(vs)

\* the first version of vs whose try passes; 0 when none passes; NotAString
\* when an item that is no string is reached first (parse_version raises)
RECURSIVE first_passing(_, _, _, _)
first_passing(e, vs, baseline, changed) ==
    IF vs = <<>> THEN 0
    ELSE IF Head(vs) = NotAString \/ (Head(vs) = NotAVersion /\ ~legacy_versions)
    THEN NotAString
    ELSE IF Head(vs) > 0
            /\ try_install_and_validate(e.package, Head(vs), baseline, changed).ok
         THEN Head(vs)
    ELSE first_passing(e, Tail(vs), baseline, changed)

\* attempt_update_with_healing as a function of the plan entry, the pass
\* baseline, the changed set so far, the oracle flag and the oracle's reply
\* to the query for this entry: [ok, reason, raised]
attempt_update_with_healing(e, baseline, changed, available, reply) ==
    LET t == try_install_and_validate(e.package, e.target, baseline, changed)
        suggested == IF available /\ reply.kind = "list" THEN reply.list ELSE <<>>
        stage_one == first_passing(e,
                        SelectSeq(suggested,
                                  LAMBDA c : \/ c = NotAString
                                             \/ c = NotAVersion /\ ~legacy_versions
                                             \/ c > e.current),
                        baseline, changed)
        stage_two == first_passing(e,
                        probe_order(backtrack_versions(e.package, e.current,
                                                       e.target)),
                        baseline, changed)
    IN  IF t.ok
        THEN [ok |-> TRUE, raised |-> FALSE,
              reason |-> IF SaysSkipped(t.data) THEN NoChangeText ELSE e.target]
        ELSE IF stage_one = NotAString
        THEN [ok |-> FALSE, raised |-> TRUE, reason |-> 0]
        ELSE IF stage_one # 0
        THEN [ok |-> TRUE, raised |-> FALSE, reason |-> stage_one]
        ELSE IF stage_two # 0
        THEN [ok |-> TRUE, raised |-> FALSE, reason |-> stage_two]
        ELSE [ok |-> FALSE, raised |-> FALSE, reason |-> 0]

\* entry of _binary_search_backtrack (lines 381-389)
BacktrackBegin ==
    /\ pc = "bs"
    /\ versions' = probe_order(backtrack_versions(Entry.package, Entry.current,
                                                  Entry.target))
    /\ pc' = "probe"
    /\ UNCHANGED <<requirements, pass_baseline, temp_venv, pass_num,
                   packages_to_update, idx, changed_packages_this_pass,
                   pass_successful_updates, final_successful_updates,
                   final_failed_updates, llm_available, version_candidates,
                   world, prune_io, reconcile_io, metrics_file, oracle_query,
                   summary, attempts, pre_run, pass_start, commit, health, heal>>

\* faulty variant: the trial manifest is written over the requirements file
Probe_writing_manifest ==
    /\ pc = "probe"
    /\ versions # <<>>
    /\ \E test_version \in {Head(versions)} :
       \E t \in {ask_llm_to_summarize_error(
              try_install_and_validate(Entry.package, test_version,
                                           pass_baseline,
                                           changed_packages_this_pass))} :
           /\ attempts' = Append(attempts, Logged(t, "probe"))
           /\ temp_venv' = t.env
           /\ requirements' = File(t.lines, FALSE)
           /\ IF t.ok
              THEN RecordSuccess(test_version)
              ELSE /\ versions' = Tail(versions)
                   /\ UNCHANGED <<pc, idx, version_candidates,
                                  changed_packages_this_pass,
                                  pass_successful_updates,
                                  final_successful_updates,
                                  final_failed_updates, heal>>
    /\ UNCHANGED <<pass_baseline, pass_num, packages_to_update,
                   llm_available, world, prune_io, reconcile_io, metrics_file, oracle_query,
                   summary, pre_run, pass_start, commit, health>>

\* one probe of Stage 2 (lines 389-404; on success 406-409 and 377-378)
Probe ==
    /\ pc = "probe"
    /\ versions # <<>>
    /\ \E test_version \in {Head(versions)} :
       \E t \in {ask_llm_to_summarize_error(
              try_install_and_validate(Entry.package, test_version,
                                           pass_baseline,
                                           changed_packages_this_pass))} :
           /\ attempts' = Append(attempts, Logged(t, "probe"))
           /\ temp_venv' = t.env
           /\ IF t.ok
              THEN RecordSuccess(test_version)
              ELSE /\ versions' = Tail(versions)
                   /\ UNCHANGED <<pc, idx, version_candidates,
                                  changed_packages_this_pass,
                                  pass_successful_updates,
                                  final_successful_updates,
                                  final_failed_updates, heal>>
    /\ UNCHANGED <<requirements, pass_baseline, pass_num, packages_to_update,
                   llm_available, world, prune_io, reconcile_io, metrics_file, oracle_query,
                   summary, pre_run, pass_start, commit, health>>

\* Stage 2 ran out of versions (lines 406-412, 379)
BacktrackFail ==
    /\ pc = "probe"
    /\ versions = <<>>
    /\ RecordFailure("All backtracking attempts failed.")
    /\ UNCHANGED <<requirements, pass_baseline, temp_venv, pass_num,
                   packages_to_update, llm_available, world, prune_io, reconcile_io, metrics_file, oracle_query,
                   summary, attempts, pre_run,
                   pass_start, commit, health>>

----------------------------------------------------------------------------
\* The end of a pass (lines 199-209) and of the run (lines 211-213)

\* faulty variant: the successful versions are not substituted
CombinedLines_unapplied(baseline, successful_updates) == baseline.lines

\* the combined manifest of _apply_pass_updates (lines 217-221)
CombinedLines(baseline, successful_updates) ==
    [i \in 1..Len(baseline.lines) |->
        LET package == get_package_name_from_spec(baseline.lines[i])
        IN  IF package \in DOMAIN successful_updates
            THEN PinLine(package, successful_updates[package])
            ELSE baseline.lines[i]]

\* faulty variant: the installer's return code is ignored, the freeze is
\* written in every case
apply_pass_updates_unchecked(successful_updates, baseline) ==
    CHOOSE r \in
        {[status |-> IF inst.ok THEN "committed" ELSE "reverted",
          lines |-> CombinedLines(baseline, successful_updates),
          env |-> inst.env,
          file |-> File(prune_pip_freeze(Freeze(inst.env)), FALSE)] :
            inst \in {Install(FreshVenv(temp_venv),
                              CombinedLines(baseline, successful_updates))}} : TRUE

\* faulty variant: on a failed install the combined manifest is copied over
\* the requirements file instead of the snapshot
apply_pass_updates_wrong_copy(successful_updates, baseline) ==
    CHOOSE r \in
        {IF ~inst.ok
         THEN [status |-> "reverted",
               lines |-> CombinedLines(baseline, successful_updates),
               env |-> inst.env,
               file |-> File(CombinedLines(baseline, successful_updates), FALSE)]
         ELSE [status |-> "committed",
               lines |-> CombinedLines(baseline, successful_updates),
               env |-> inst.env,
               file |-> File(prune_pip_freeze(Freeze(inst.env)), FALSE)] :
            inst \in {Install(FreshVenv(temp_venv),
                              CombinedLines(baseline, successful_updates))}} : TRUE

\* what _apply_pass_updates leaves in the requirements file:
\* [status, file, env]
apply_pass_updates(successful_updates, baseline) ==
    CHOOSE r \in
        {IF ~inst.ok
         THEN [status |-> "reverted",
               lines |-> CombinedLines(baseline, successful_updates),
               env |-> inst.env,
               file |-> baseline]
         ELSE [status |-> "committed",
               lines |-> CombinedLines(baseline, successful_updates),
               env |-> inst.env,
               file |-> File(prune_pip_freeze(Freeze(inst.env)), FALSE)] :
            inst \in {Install(FreshVenv(temp_venv),
                              CombinedLines(baseline, successful_updates))}} : TRUE

\* faulty variant: no break after a pass that changed nothing
next_after_pass_no_break(changed, n) ==
    IF n < MAX_RUN_PASSES THEN "pass" ELSE "finish"

\* while pass_num < MAX_RUN_PASSES ... if not changed_packages_this_pass: break
next_after_pass(changed, n) ==
    IF changed = {} THEN "finish"
    ELSE IF n < MAX_RUN_PASSES THEN "pass"
    ELSE "finish"

PassEnd ==
    /\ pc = "commit"
    /\ IF changed_packages_this_pass # {}
       THEN \E r \in {apply_pass_updates(pass_successful_updates, pass_baseline)} :
                /\ requirements' = [r.file EXCEPT !.exists = TRUE]
                /\ temp_venv' = r.env
                /\ commit' = [status |-> r.status, lines |-> r.lines,
                              env |-> r.env, updates |-> pass_successful_updates,
                              pass |-> pass_num]
       ELSE UNCHANGED <<requirements, temp_venv, commit>>
    /\ pass_baseline' = NoFile
    /\ pc' = next_after_pass(changed_packages_this_pass, pass_num)
    /\ UNCHANGED <<pass_num, packages_to_update, idx, changed_packages_this_pass,
                   pass_successful_updates, final_successful_updates,
                   final_failed_updates, llm_available, version_candidates,
                   versions, world, prune_io, reconcile_io, metrics_file, oracle_query,
                   summary, attempts, pre_run, pass_start, health, heal>>

\* _print_final_summary: the rows printed
print_final_summary(successful, failed) ==
    [printed |-> TRUE, successful |-> DOMAIN successful, failed |-> DOMAIN failed]

\* lines 211-213
Finish ==
    /\ pc = "finish"
    /\ health' = IF DOMAIN final_successful_updates # {}
                 THEN Append(health, HealthCheck("final"))
                 ELSE health
    /\ summary' = IF DOMAIN final_successful_updates # {}
                  THEN print_final_summary(final_successful_updates,
                                           final_failed_updates)
                  ELSE summary
    /\ pc' = "done"
    /\ UNCHANGED <<requirements, pass_baseline, temp_venv, pass_num,
                   packages_to_update, idx, changed_packages_this_pass,
                   pass_successful_updates, final_successful_updates,
                   final_failed_updates, llm_available, version_candidates,
                   versions, world, prune_io, reconcile_io, metrics_file, oracle_query, attempts, pre_run, pass_start, commit, heal>>

Next ==
    \/ RunBegin
    \/ Bootstrap
    \/ EntryHealthCheck
    \/ PassBegin
    \/ AttemptTarget
    \/ AskOracle
    \/ TryCandidate
    \/ BacktrackBegin
    \/ Probe
    \/ BacktrackFail
    \/ PassEnd
    \/ Finish

Spec == Init /\ [][Next]_vars

----------------------------------------------------------------------------
\* _prune_pip_freeze on its own: a text of pip freeze, pruned and pruned again

MaxLines == 3

\* the lines pip freeze prints, and the empty line between or after them
FreezeLines ==
    {PinLine("a", 1), EditLine, UrlLine("b"), DirectLine("b"), NoteLine("a"),
     BlankLine}

FreezeOutputs == UNION {[1..n -> FreezeLines] : n \in 0..MaxLines}

PruneInit ==
    /\ freeze_output \in FreezeOutputs
    /\ pruned = <<>>
    /\ pc = "prune"
    /\ requirements = NoFile
    /\ pypi = [h \in Heads |-> [stable |-> {}, pre |-> {}]]
    /\ uninstallable = {}
    /\ invalid = {}
    /\ clash = "none"
    /\ primary_packages = {}
    /\ usage_scores = [h \in Heads |-> 0]
    /\ metrics = "ALL TESTS PASSED"
    /\ summary_quota = FALSE
    /\ legacy_versions = FALSE
    /\ metrics_file = NoMetricsFile
    /\ NothingDoneYet
    /\ NothingReconciled

\* one call of _prune_pip_freeze, on the text first and then on its own
\* output
PruneFreeze ==
    /\ pc = "prune"
    /\ Len(pruned) < 2
    /\ pruned' = Append(pruned,
                        prune_pip_freeze(IF pruned = <<>> THEN freeze_output
                                         ELSE pruned[Len(pruned)]))
    /\ UNCHANGED <<requirements, pass_baseline, temp_venv, pc, pass_num,
                   packages_to_update, idx, changed_packages_this_pass,
                   pass_successful_updates, final_successful_updates,
                   final_failed_updates, llm_available, oracle_query, summary,
                   version_candidates, versions, world, attempts, pre_run,
                   pass_start, commit, health, heal, freeze_output,
                   metrics_file, reconcile_io>>

PruneNext == PruneFreeze

PruneSpec == PruneInit /\ [][PruneNext]_vars

----------------------------------------------------------------------------
\* Helpers of the properties

EntryHealthy == Len(health) >= 1 /\ health[1].at = "entry" /\ health[1].valid

AfterPass == pc \in {"pass", "finish", "done"} /\ pass_num >= 1

\* the versions at which the file pins project n
PinsOf(f, n) ==
    {f.lines[i].ver : i \in {j \in 1..Len(f.lines) :
                               f.lines[j].kind = "pin" /\ f.lines[j].name = n}}

\* the tries of plan entry i in the current pass made at the given stage
TriesOf(i, stage) ==
    SelectSeq(attempts, LAMBDA t : t.idx = i /\ t.stage = stage)

\* a healing of the current pass has just returned for plan entry heal.idx
HealReturned ==
    /\ heal.pass = pass_num
    /\ heal.idx >= 1
    /\ heal.idx = idx - 1
    /\ pc \in {"attempt", "commit"}

Healed == packages_to_update[heal.idx]

----------------------------------------------------------------------------
\* C1: every baseline a pass commit writes passes validation in a fresh
\* environment, provided the starting baseline did.
C1_CommittedBaselineValidated ==
    (EntryHealthy /\ commit.status = "committed") => Healthy(requirements)

\* C2: after every pass the manifest is fully pinned and is either the
\* manifest as it stood before the pass or the freeze of an environment in
\* which the combined successful versions installed.
C2_ManifestAfterPass ==
    AfterPass =>
        /\ is_fully_pinned(requirements)
        /\ \/ requirements = pass_start
           \/ LET inst == Install(EmptyEnv, CombinedLines(pass_start, commit.updates))
              IN  /\ commit.status = "committed"
                  /\ commit.pass = pass_num
                  /\ commit.updates = pass_successful_updates
                  /\ inst.ok
                  /\ requirements = File(prune_pip_freeze(Freeze(inst.env)), FALSE)

C2_Witness ==
    AfterPass /\ commit.status = "committed" /\ requirements # pass_start

\* C4: when the combined install of a commit fails, the manifest equals the
\* snapshot taken at the start of the pass.
C4_RevertRestoresSnapshot ==
    commit.status = "reverted" => requirements = pass_start

C4_Witness == commit.status = "reverted" /\ Len(commit.lines) >= 2

\* C5: after a failed combined install the run starts no further pass.
C5_NoPassAfterRevert ==
    commit.status = "reverted" => pc \in {"finish", "done"}

\* C10: after a failed combined install every package of the combined set
\* is in the failed-updates map and not in the successful-updates map.
C10_RevertedAreFailed ==
    commit.status = "reverted" =>
        \A p \in DOMAIN commit.updates :
            /\ p \in DOMAIN final_failed_updates
            /\ p \notin DOMAIN final_successful_updates

\* C7: every reached version in the successful-updates map is at least the
\* version the pre-run baseline pins for that package.
C7_MonotonicVersions ==
    \A p \in DOMAIN final_successful_updates :
        \A v \in PinsOf(pre_run, p) : final_successful_updates[p].reached >= v

\* the agent is inside the body of a pass
InPass == pc \in {"attempt", "oracle", "llm", "bs", "probe", "commit"}

\* C3 (as claimed): a version is accepted, and recorded in the pass's
\* successful-updates map, only after the trial manifest installed in a fresh
\* environment and the validator ran and passed.
C3_AcceptedOnlyAfterValidation ==
    InPass =>
        /\ \A i \in 1..Len(attempts) :
              attempts[i].ok =>
                  /\ attempts[i].fresh
                  /\ attempts[i].installed
                  /\ attempts[i].validated
                  /\ attempts[i].valid
        /\ \A p \in DOMAIN pass_successful_updates :
              \E i \in 1..Len(attempts) :
                  /\ attempts[i].package = p
                  /\ attempts[i].version = pass_successful_updates[p]
                  /\ attempts[i].ok
                  /\ attempts[i].validated

\* C3 (amended): a try succeeds only after its trial manifest installed in a
\* fresh environment and either the validator ran and passed, or validation
\* was skipped under the no-change rule; every package in the pass's
\* successful-updates map had such a try in this pass.
C3_AcceptedAfterValidationOrSkip ==
    InPass =>
        /\ \A i \in 1..Len(attempts) :
              attempts[i].ok =>
                  /\ attempts[i].fresh
                  /\ attempts[i].installed
                  /\ attempts[i].lines =
                        TrialLines(pass_baseline, attempts[i].package,
                                   attempts[i].version)
                  /\ Install(EmptyEnv, attempts[i].lines).ok
                  /\ \/ attempts[i].validated /\ attempts[i].valid
                     \/ ~attempts[i].validated /\ attempts[i].skip_rule
        /\ \A p \in DOMAIN pass_successful_updates :
              \E i \in 1..Len(attempts) :
                  /\ attempts[i].package = p
                  /\ attempts[i].ok
                  /\ \/ attempts[i].version = pass_successful_updates[p]
                     \/ /\ pass_successful_updates[p] = NoChangeText
                        /\ SaysSkipped(attempts[i].data)

C3_Witness ==
    /\ InPass
    /\ \E i, j \in 1..Len(attempts) :
          /\ attempts[i].ok /\ ~attempts[i].validated
          /\ attempts[i].package \in DOMAIN pass_successful_updates
          /\ attempts[j].ok /\ attempts[j].validated
          /\ attempts[j].package \in DOMAIN pass_successful_updates

\* every planned upgrade of the pass passed at its latest version on the
\* first try, and the commit of the pass succeeded
AllAtLatest ==
    /\ commit.status = "committed"
    /\ commit.pass = pass_num
    /\ Len(attempts) = Len(packages_to_update)
    /\ \A i \in 1..Len(attempts) :
          /\ attempts[i].stage = "target"
          /\ attempts[i].ok
          /\ attempts[i].validated

\* C6: when every planned upgrade passes at its latest version and the
\* commit succeeds, the manifest pins every planned package at its latest
\* version, the run's successful-updates map records it with that version,
\* and the following pass finds an empty plan and ends the run without an
\* attempt.
C6_AllLatestConverges ==
    /\ [](AllAtLatest =>
            /\ pc = "pass"
            /\ Candidates(requirements.lines) = <<>>
            /\ \A i \in 1..Len(packages_to_update) :
                  LET e == packages_to_update[i]
                  IN  /\ PinsOf(requirements, e.package) = {e.target}
                      /\ e.package \in DOMAIN final_successful_updates
                      /\ final_successful_updates[e.package] =
                            [target |-> e.target, reached |-> e.target])
    /\ [][AllAtLatest =>
            /\ pc' = "finish"
            /\ attempts' = <<>>
            /\ packages_to_update' = <<>>
            /\ requirements' = requirements]_vars

C6_Witness == AllAtLatest /\ Len(packages_to_update) >= 2

\* the versions Stage 2 is to probe for a plan entry, highest first: the
\* non-prerelease releases in [current, target) and current itself
StageTwoOrder(e) ==
    LET stable == IF e.package \in DOMAIN pypi THEN pypi[e.package].stable ELSE {}
    IN  Reverse(SortedSeq({v \in stable : e.current <= v /\ v < e.target}
                              \cup {e.current}))

\* the try of version v for the healed entry, as the healing saw it
Would(v) ==
    try_install_and_validate(Healed.package, v, pass_baseline, heal.changed)

\* C8: Stage 2 probes the non-prerelease versions of [current, target), with
\* current included, in strictly descending order, stops at the first probe
\* that passes and returns it: the greatest passing version below the
\* target, or none when no probe passes.
C8_StageTwoDescending ==
    InPass =>
        /\ \A i \in 1..Len(packages_to_update) :
              LET P == TriesOf(i, "probe")
                  E == StageTwoOrder(packages_to_update[i])
              IN  /\ Len(P) <= Len(E)
                  /\ \A k \in 1..Len(P) : P[k].version = E[k]
                  /\ \A k \in 1..(Len(P) - 1) : P[k].version > P[k + 1].version
                  /\ \A k \in 1..(Len(P) - 1) : ~P[k].ok
        /\ (HealReturned /\ TriesOf(heal.idx, "probe") # <<>>) =>
              LET P == TriesOf(heal.idx, "probe")
                  E == StageTwoOrder(Healed)
                  last == P[Len(P)]
              IN  IF last.ok
                  THEN /\ heal.ok
                       /\ heal.reason = last.version
                       /\ Would(heal.reason).ok
                       /\ \A k \in 1..Len(E) : E[k] > heal.reason => ~Would(E[k]).ok
                  ELSE /\ ~heal.ok
                       /\ Len(P) = Len(E)
                       /\ \A k \in 1..Len(E) : ~Would(E[k]).ok

C8_Witness ==
    /\ HealReturned
    /\ heal.ok
    /\ Len(TriesOf(heal.idx, "probe")) >= 2
    /\ ~TriesOf(heal.idx, "probe")[1].ok
    /\ heal.reason = TriesOf(heal.idx, "probe")[2].version

\* releases of the healed package strictly between current and target
Between(e, kinds) ==
    IF e.package \notin DOMAIN pypi THEN {}
    ELSE {v \in (IF kinds = "stable" THEN pypi[e.package].stable
                 ELSE pypi[e.package].stable \cup pypi[e.package].pre) :
             e.current < v /\ v < e.target}

\* the healing that just returned had a failing target, no oracle, and
\* every release strictly between current and target fails
AllBetweenFail ==
    /\ HealReturned
    /\ ~llm_available
    /\ TriesOf(heal.idx, "oracle") = <<>>
    /\ ~TriesOf(heal.idx, "target")[1].ok
    /\ \A v \in Between(Healed, "all") : ~Would(v).ok

ProbedVersions ==
    [k \in 1..Len(TriesOf(heal.idx, "probe")) |->
        TriesOf(heal.idx, "probe")[k].version]

C9_WitnessFailed ==
    /\ AllBetweenFail
    /\ Len(ProbedVersions) >= 2
    /\ ~heal.ok

----------------------------------------------------------------------------
\* run() has returned, exited or raised
Terminated == pc \in {"done", "aborted", "crashed"}

\* the manifest the pass loop started from has no line but editable ones
NothingPinned ==
    /\ pre_run.exists
    /\ \A i \in 1..Len(pre_run.lines) : pre_run.lines[i].kind = "edit"

\* the longest plan: one entry for each line of the longest manifest
MaxPlan == SetMax({Len(ls) : ls \in Manifests})

\* steps one plan entry can take: the first try, the query, the suggestions,
\* the entry of Stage 2, its probes and the recording
EntrySteps == SetMax({Len(r.list) : r \in OracleReplies}) + MaxVer + 6

\* steps left for the plan entry being processed
StageLeft ==
    CASE pc = "attempt" -> EntrySteps
      [] pc = "oracle" -> EntrySteps - 1
      [] pc = "llm" -> MaxVer + 3 + Len(version_candidates)
      [] pc = "bs" -> MaxVer + 2
      [] pc = "probe" -> Len(versions) + 1
      [] OTHER -> 0

PassSteps == MaxPlan * (EntrySteps + 1) + EntrySteps + 3

\* a bound on the number of steps run() still takes
Measure ==
    CASE Terminated -> 0
      [] pc = "finish" -> 1
      [] pc = "pass" -> (MAX_RUN_PASSES - pass_num) * PassSteps + 2
      [] pc = "commit" -> (MAX_RUN_PASSES - pass_num) * PassSteps + 3
      [] pc \in {"attempt", "oracle", "llm", "bs", "probe"} ->
            (MAX_RUN_PASSES - pass_num) * PassSteps + 3
                + (Len(packages_to_update) - idx) * (EntrySteps + 1) + StageLeft
      [] pc = "health" -> MAX_RUN_PASSES * PassSteps + 3
      [] pc = "bootstrap" -> MAX_RUN_PASSES * PassSteps + 4
      [] pc = "start" -> MAX_RUN_PASSES * PassSteps + 5

\* run() is at a position from which it goes on
CanStep ==
    \/ pc \in {"start", "bootstrap", "health", "pass", "oracle", "bs", "probe",
              "commit", "finish"}
    \/ pc = "attempt" /\ idx \in 1..Len(packages_to_update)
    \/ pc = "llm" /\ version_candidates # <<>>

\* C11: the run terminates: every step lowers a natural-valued bound on the
\* steps left and a run that has not ended can go on; it starts at most
\* MAX_RUN_PASSES passes and no pass after a pass whose plan or whose
\* changed set was empty; a run on an empty manifest or one with only
\* editable lines ends in pass 1 without an attempt and with the manifest
\* unchanged.
C11_RunLoopTerminates ==
    /\ [](Measure \in Nat /\ (Terminated \/ CanStep))
    /\ [][Measure' < Measure]_vars
    /\ [](pass_num <= MAX_RUN_PASSES)
    /\ [][pass_num' # pass_num =>
            /\ pass_num' = pass_num + 1
            /\ pass_num >= 1 => /\ packages_to_update # <<>>
                                /\ changed_packages_this_pass # {}]_vars
    /\ [](NothingPinned =>
            /\ pc \in {"pass", "finish", "done"}
            /\ pass_num <= 1
            /\ pc # "pass" => pass_num = 1
            /\ attempts = <<>>
            /\ packages_to_update = <<>>
            /\ requirements = pre_run)

C11_Witness == pc = "done" /\ pass_num = MAX_RUN_PASSES

\* C12: a run that went through the pass loop and returned ended with a
\* health check made after the planning of its last pass.
C12_FinalHealthCheckAlways ==
    pc = "done" =>
        /\ health # <<>>
        /\ health[Len(health)].at \in {"final", "up-to-date"}

\* C18: when a run that recorded failures returns, the final summary has
\* been printed and has a row for every package of the failed-updates map.
C18_EveryFailureInSummary ==
    (pc = "done" /\ DOMAIN final_failed_updates # {}) =>
        /\ summary.printed
        /\ DOMAIN final_failed_updates \subseteq summary.failed

\* the healing that just returned made its oracle query with the flag
\* already latched
HealedWhileLatched ==
    /\ HealReturned
    /\ oracle_query.pass = pass_num
    /\ oracle_query.idx = heal.idx
    /\ oracle_query.latched

\* C13: the oracle-availability flag never goes back to available; with the
\* flag latched no query, for candidates or for a summary, calls the oracle,
\* a healing makes no Stage 1 try and goes on to Stage 2, which probes, and
\* the run goes on to its end without raising.
C13_OracleLatch ==
    /\ [][~llm_available => ~llm_available']_vars
    /\ [](oracle_query.latched => ~oracle_query.io)
    /\ [](\A i \in 1..Len(attempts) : attempts[i].latched => ~attempts[i].asked)
    /\ [][(pc = "oracle" /\ ~llm_available) =>
            /\ pc' = "bs"
            /\ version_candidates' = <<>>
            /\ attempts' = attempts]_vars
    /\ [][pc = "bs" => (pc' = "probe" /\ versions' # <<>>)]_vars
    /\ [](HealedWhileLatched =>
            /\ TriesOf(heal.idx, "oracle") = <<>>
            /\ TriesOf(heal.idx, "probe") # <<>>)
    /\ [](~llm_available => (pc # "crashed" /\ (Terminated \/ CanStep)))
    /\ [][~llm_available => Measure' < Measure]_vars

C13_Witness ==
    /\ HealedWhileLatched
    /\ TriesOf(heal.idx, "probe") # <<>>
    /\ \E i \in 1..Len(attempts) : attempts[i].latched /\ ~attempts[i].installed

\* the reply has no bracketed literal, or one that does not parse, or one
\* that is not a list of version strings
Malformed(reply) ==
    \/ reply.kind = "malformed"
    \/ reply.kind = "list" /\ InSeq(NotAString, reply.list)

\* C14: after a malformed reply to the version-candidates query of the plan
\* entry being healed, healing goes to Stage 2 without a Stage 1 try and
\* without raising.
C14_MalformedReplyIsNoSuggestion ==
    ( /\ pc \in {"llm", "bs", "probe", "crashed"}
      /\ oracle_query.pass = pass_num
      /\ oracle_query.idx = idx
      /\ oracle_query.io
      /\ Malformed(oracle_query.reply) ) =>
        /\ pc \in {"bs", "probe"}
        /\ TriesOf(idx, "oracle") = <<>>

\* the trial manifest of a try, taken from the manifest as it stood when the
\* pass began
TrialOfPassStart(t) ==
    /\ Len(t.lines) = Len(pass_start.lines)
    /\ \A k \in 1..Len(t.lines) :
          t.lines[k] =
              IF get_package_name_from_spec(pass_start.lines[k]) = t.package
              THEN PinLine(t.package, t.version)
              ELSE pass_start.lines[k]

\* C15: from the snapshot at the start of a pass to its commit, no attempt
\* and no healing probe, passing or failing, writes the requirements file or
\* the snapshot, and every try builds its trial manifest from the snapshot.
C15_AttemptsLeaveManifestsAlone ==
    /\ [][(pc \in {"attempt", "oracle", "llm", "bs", "probe"}) =>
            (requirements' = requirements /\ pass_baseline' = pass_baseline)]_vars
    /\ [](InPass =>
            /\ pass_baseline.exists
            /\ pass_baseline = pass_start
            /\ requirements = pass_start
            /\ \A i \in 1..Len(attempts) : TrialOfPassStart(attempts[i]))

C15_Witness ==
    /\ pc = "commit"
    /\ changed_packages_this_pass # {}
    /\ \E i, j \in 1..Len(attempts) :
          /\ attempts[i].ok /\ attempts[i].stage = "probe"
          /\ ~attempts[j].ok

\* the replies a deterministic oracle can have for the query of the healed
\* entry, given what this run saw of it: the reply it gave when it was
\* asked, any well-formed reply when it was not asked
RepliesFor(i) ==
    IF oracle_query.pass = pass_num /\ oracle_query.idx = i /\ oracle_query.io
    THEN {oracle_query.reply}
    ELSE {r \in OracleReplies : ~InSeq(NotAString, r.list)}

\* C16: in the first pass, what the healing of a plan entry returned, after
\* whatever entries came before it, is what it returns when the entry is
\* first in the plan: nothing changed yet, the oracle available.
C16_OrderIndependent ==
    (HealReturned /\ pass_num = 1) =>
        \A r \in RepliesFor(heal.idx) :
            LET alone == attempt_update_with_healing(Healed, pass_start, {},
                                                     TRUE, r)
            IN  /\ alone.ok = heal.ok
                /\ alone.reason = heal.reason

\* some non-comment line of the manifest is neither editable nor of the
\* form name==version
SomeLineUnpinned ==
    \E i \in 1..Len(requirements.lines) :
        requirements.lines[i].kind \notin {"pin", "edit"}

\* C17: the bootstrap runs exactly when the manifest is not fully pinned; a
\* bootstrap whose installation or validation fails aborts the run and leaves
\* the manifest as it was; a manifest still not fully pinned after the
\* bootstrap aborts the run; an aborted run has made no health check, no pass
\* and no attempt, and makes none afterwards.
C17_Bootstrap ==
    /\ [][(pc = "start") => (pc' = "bootstrap" <=> SomeLineUnpinned)]_vars
    /\ [][(pc' = "bootstrap") => (pc = "start")]_vars
    /\ [][(pc = "bootstrap" /\ ~Healthy(requirements))
            => (pc' = "aborted" /\ requirements' = requirements)]_vars
    /\ [][(pc = "bootstrap" /\ SomeLineUnpinned') => (pc' = "aborted")]_vars
    /\ [](pc \in {"bootstrap", "aborted"}
            => /\ health = <<>>
               /\ pass_num = 0
               /\ attempts = <<>>
               /\ pass_baseline = NoFile)
    /\ [][pc # "aborted"]_vars

C17_Witness ==
    /\ pc = "aborted"
    /\ requirements.lines = <<ReqLine("b")>>
    /\ ~Healthy(requirements)

\* the other abort: the bootstrap succeeded and froze a direct reference
C17_StillUnpinned ==
    /\ pc = "aborted"
    /\ requirements.lines = <<UrlLine("b")>>
    /\ Healthy(requirements)

\* a package name lower-cased, '_' replaced by '-'
Normalize(n) == IF n = "B" THEN "b" ELSE n

\* the score of a plan entry when names are compared after normalisation
NormalizedScore(e) ==
    LET usage == IF \E n \in DOMAIN usage_scores : Normalize(n) = Normalize(e.package)
                 THEN usage_scores[CHOOSE n \in DOMAIN usage_scores :
                                       Normalize(n) = Normalize(e.package)]
                 ELSE 0
        is_primary == IF \E p \in primary_packages :
                             Normalize(p) = Normalize(e.package)
                      THEN 1 ELSE 0
    IN  5 * usage + 3 * is_primary + 2 * semver_severity(e.current, e.target)

\* C19: the primary flag and the usage count of a plan entry are looked up
\* by normalised name, so the plan of a pass stands in non-increasing order
\* of the score computed with normalised names.
C19_NamesNormalized ==
    \A i, j \in 1..Len(packages_to_update) :
        i < j => NormalizedScore(packages_to_update[i])
                    >= NormalizedScore(packages_to_update[j])

\* 3 for a major-version bump, 2 for a minor-version bump, 1 otherwise
ClaimedSeverity(e) ==
    IF e.current \notin 1..MaxVer \/ e.target \notin 1..MaxVer THEN 1
    ELSE IF (e.target + 1) \div 2 > (e.current + 1) \div 2 THEN 3
    ELSE IF (e.target + 1) % 2 > (e.current + 1) % 2 THEN 2
    ELSE 1

\* 5*usage + 3*primary + 2*severity
ClaimedScore(e) ==
    5 * (IF e.package \in DOMAIN usage_scores THEN usage_scores[e.package] ELSE 0)
        + 3 * (IF e.package \in primary_packages THEN 1 ELSE 0)
        + 2 * ClaimedSeverity(e)

\* C20: the plan of a pass is the candidates of the pass's manifest, in
\* non-increasing order of 5*usage + 3*primary + 2*severity, candidates of
\* equal score in manifest order; the tries of the pass follow the plan.
C20_PlanOrder ==
    LET c == Candidates(pass_start.lines)
        n == Len(packages_to_update)
        planned == pass_num >= 1 /\ ~(pc = "crashed" /\ n = 0)
    IN  /\ planned => n = Len(c)
        /\ planned =>
             \E f \in [1..n -> 1..n] :
                /\ \A i, j \in 1..n : i # j => f[i] # f[j]
                /\ \A k \in 1..n : packages_to_update[k] = c[f[k]]
                /\ \A i, j \in 1..n : i < j =>
                     \/ ClaimedScore(c[f[i]]) > ClaimedScore(c[f[j]])
                     \/ /\ ClaimedScore(c[f[i]]) = ClaimedScore(c[f[j]])
                        /\ f[i] < f[j]
        /\ \A i, j \in 1..Len(attempts) : i < j => attempts[i].idx <= attempts[j].idx

\* the plan reverses the manifest order and its second entry has been tried
C20_Witness ==
    /\ Len(packages_to_update) = 2
    /\ packages_to_update[1].package = "b"
    /\ ClaimedScore(packages_to_update[1]) > ClaimedScore(packages_to_update[2])
    /\ \E i \in 1..Len(attempts) : attempts[i].idx = 2

\* two candidates of equal score, planned and tried in manifest order
C20_TieWitness ==
    /\ Len(packages_to_update) = 2
    /\ ClaimedScore(packages_to_update[1]) = ClaimedScore(packages_to_update[2])
    /\ packages_to_update[1] # packages_to_update[2]
    /\ \E i \in 1..Len(attempts) : attempts[i].idx = 2

\* the usage count outweighs the primary flag
C20_UsageWitness ==
    /\ Len(packages_to_update) = 2
    /\ packages_to_update[1].package = "a"
    /\ packages_to_update[2].package \in primary_packages
    /\ \E i \in 1..Len(attempts) : attempts[i].idx = 2

\* C21: pruning a freeze output a second time changes nothing, and every
\* line a pruning returns holds "==" or is an editable line starting "-e".
C21_PruneIdempotent ==
    /\ Len(pruned) = 2 => pruned[2] = pruned[1]
    /\ \A k \in 1..Len(pruned) : \A i \in 1..Len(pruned[k]) :
          pruned[k][i].kind \in {"pin", "url", "note", "edit"}

\* a freeze output that loses lines in the first pruning, pruned twice
C21_Witness ==
    /\ Len(pruned) = 2
    /\ pruned[1] # <<>>
    /\ Len(pruned[1]) < Len(freeze_output)
    /\ \E i \in 1..Len(freeze_output) : freeze_output[i].kind = "direct"

\* the last health check of a finished run installed and validated
FinalCheckPassed ==
    /\ pc = "done"
    /\ health # <<>>
    /\ health[Len(health)].at \in {"final", "up-to-date"}
    /\ health[Len(health)].installed
    /\ health[Len(health)].valid

\* C22: after a run whose final health check passed with metrics that do not
\* hold "not available", METRICS_OUTPUT_FILE exists and holds those metrics;
\* metrics that hold "not available" are never in the file.
C22_MetricsPersisted ==
    /\ (FinalCheckPassed /\ ~HasNotAvailable(metrics))
          => (metrics_file.exists /\ metrics_file.text = metrics)
    /\ ~HasNotAvailable(metrics_file.text)

\* the versions of the oracle's reply that Stage 1 does not skip
Eligible(e, list) == SelectSeq(list, LAMBDA c : c > e.current)

IsPrefix(s, t) == Len(s) <= Len(t) /\ s = SubSeq(t, 1, Len(s))

\* the versions Stage 1 tried for plan entry i, in the order of the tries
StageOneVersions(i) ==
    LET tries == TriesOf(i, "oracle")
    IN  [k \in 1..Len(tries) |-> tries[k].version]

\* Stage 1 tries the suggestions above the current version in the oracle's
\* order, stops at the first that passes and returns it
C23_OrderAndFirstPass ==
    /\ \A i \in 1..Len(attempts) :
          (attempts[i].stage = "oracle" /\ attempts[i].ok)
             => \A j \in (i + 1)..Len(attempts) : attempts[j].idx # attempts[i].idx
    /\ (oracle_query.pass = pass_num /\ oracle_query.idx >= 1
          /\ pc \in {"llm", "bs", "attempt", "commit"})
          => IsPrefix(StageOneVersions(oracle_query.idx),
                      Eligible(packages_to_update[oracle_query.idx],
                               oracle_query.reply.list))
    /\ HealReturned =>
          LET tries == TriesOf(heal.idx, "oracle")
          IN  (tries # <<>> /\ tries[Len(tries)].ok)
                 => (heal.ok /\ heal.reason = tries[Len(tries)].version)

\* C23: every version Stage 1 tries is above the package's current version
\* and strictly older than the failed target; the suggestions are tried in
\* the oracle's order and the first that passes is returned.
C23_StageOneVersions ==
    /\ \A i \in 1..Len(attempts) :
          attempts[i].stage = "oracle"
             => /\ attempts[i].version > packages_to_update[attempts[i].idx].current
                /\ attempts[i].version < packages_to_update[attempts[i].idx].target
    /\ C23_OrderAndFirstPass

\* C24: in one healing, Stage 1 runs the attempt engine on at most
\* MAX_LLM_BACKTRACK_ATTEMPTS suggested versions.
C24_StageOneBounded ==
    \A i \in 1..Len(packages_to_update) :
        Len(TriesOf(i, "oracle")) <= MAX_LLM_BACKTRACK_ATTEMPTS

\* C25: a quota exhaustion in either oracle query, and a reply to the
\* version-candidates query that does not parse, leave the flag latched;
\* while it is latched no try belongs to Stage 1 and no query reaches the
\* oracle.
C25_QuotaOrParseFailureLatches ==
    /\ (oracle_query.io /\ oracle_query.reply.kind \in {"quota", "malformed"})
          => ~llm_available
    /\ \A i \in 1..Len(attempts) :
          attempts[i].summary = "quota" => ~llm_available
    /\ \A i \in 1..Len(attempts) :
          attempts[i].latched => (attempts[i].stage # "oracle" /\ ~attempts[i].asked)
    /\ (oracle_query.latched => ~oracle_query.io)

\* the part of C25 the code keeps: quota exhaustion in the
\* version-candidates query
C25_CandidatesQuotaLatches ==
    /\ (oracle_query.io /\ oracle_query.reply.kind = "quota") => ~llm_available
    /\ \A i \in 1..Len(attempts) :
          attempts[i].latched => (attempts[i].stage # "oracle" /\ ~attempts[i].asked)
    /\ (oracle_query.latched => ~oracle_query.io)

\* a summary query met quota exhaustion and the flag is still set
C25_SummaryQuotaSeen ==
    /\ llm_available
    /\ \E i \in 1..Len(attempts) : attempts[i].summary = "quota"

\* the lines ls differ from the baseline of the pass only on the lines of
\* the given packages
OnlyLinesOf(packages, ls) ==
    /\ Len(ls) = Len(pass_start.lines)
    /\ \A i \in 1..Len(ls) :
          (pass_start.lines[i].kind = "edit"
              \/ pass_start.lines[i].name \notin packages)
             => ls[i] = pass_start.lines[i]

\* C26: the trial manifest of a try for package p, and the combined manifest
\* of the commit, differ from the pass baseline only in the lines of the
\* packages being changed; editable lines and the lines of packages whose
\* name merely begins with p followed by '.' or '[' are unchanged.
C26_OnlyChangedPackagesRewritten ==
    /\ \A k \in 1..Len(attempts) :
          OnlyLinesOf({attempts[k].package}, attempts[k].lines)
    /\ (commit.pass = pass_num /\ commit.status # "none")
          => OnlyLinesOf(DOMAIN commit.updates, commit.lines)

\* the entries the claim puts in the plan: one for each exact-pin line of
\* the pass's manifest whose package the registry knows with a latest
\* version above the pinned one
ClaimedPlan ==
    {[package |-> l.name, current |-> l.ver,
      target |-> get_latest_version(l.name)] :
        l \in {pass_start.lines[i] : i \in
                 {j \in 1..Len(pass_start.lines) :
                     /\ pass_start.lines[j].kind = "pin"
                     /\ get_latest_version(pass_start.lines[j].name) # 0
                     /\ get_latest_version(pass_start.lines[j].name)
                            > pass_start.lines[j].ver}}}

\* C27: the plan of a pass holds exactly the exact-pin lines of the pass
\* baseline whose registry latest version is above the pinned version;
\* lines at their latest, lines of packages the registry does not know and
\* editable or unpinned lines give no entry.
C27_PlanIsOutdatedPins ==
    pass_num >= 1 =>
        /\ {packages_to_update[i] : i \in 1..Len(packages_to_update)} = ClaimedPlan
        /\ Len(packages_to_update) = Cardinality(ClaimedPlan)

\* the try's version is the version the baseline of the pass records for the
\* try's package
AtBaselineVersion(t) == t.version \in PinsOf(pass_start, t.package)

\* C28: a try whose install succeeded returns success without running the
\* validator exactly when its version is the one the pass baseline records
\* for the package and nothing has changed in the pass; every other
\* successful try ran the validator, which passed.
C28_SkipExactlyWhenNoChange ==
    \A k \in 1..Len(attempts) :
        LET t == attempts[k]
        IN  /\ t.installed =>
                ((t.ok /\ ~t.validated) <=> (AtBaselineVersion(t) /\ t.changed = {}))
            /\ (t.ok /\ ~(AtBaselineVersion(t) /\ t.changed = {}))
                  => (t.validated /\ t.valid)

\* run() was left by the exception parse_version raises on text that is no
\* version: at planning, or on the suggestion at the head of the list
CrashedOnNotAVersion ==
    /\ pc = "crashed"
    /\ \/ version_candidates = <<>>
       \/ Head(version_candidates) = NotAVersion

\* C29: a pinned line whose version, or a suggestion of the oracle, that is
\* no version is left out: no plan entry starts from it, Stage 1 does not
\* try it, and the run is not aborted by it.
C29_NotAVersionExcluded ==
    /\ ~CrashedOnNotAVersion
    /\ \A i \in 1..Len(packages_to_update) :
          packages_to_update[i].current # NotAVersion
    /\ \A k \in 1..Len(attempts) :
          attempts[k].stage = "oracle" => attempts[k].version # NotAVersion

\* the pins the combined manifest of a pass gets from the pass's
\* successful-updates map
CommittedPins == {pass_successful_updates[p] : p \in DOMAIN pass_successful_updates}

\* C30: the reached version recorded for a package in the pass's and the
\* run's successful-updates maps is a version, the one a successful try of
\* the package was made on in that pass, never a text of the validator or
\* the no-change text; so the combined manifest gets versions only.
C30_ReachedIsAVersion ==
    /\ \A p \in DOMAIN final_successful_updates :
          final_successful_updates[p].reached \in Ver
    /\ CommittedPins \subseteq Ver
    /\ InPass =>
          \A p \in DOMAIN pass_successful_updates :
              \E i \in 1..Len(attempts) :
                  /\ attempts[i].pass = pass_num
                  /\ attempts[i].package = p
                  /\ attempts[i].ok
                  /\ attempts[i].version = pass_successful_updates[p]

----------------------------------------------------------------------------
\* reconcile.py: reconcile_requirements run once on a golden record
\* (requirements.txt) and an ideal state (temp-ideal-state.txt).  A line of
\* these files is a record [kind, name, ver, marker]; marker says that the
\* line ends with "; <environment marker>".

MaxRecord == 2

\* "name==ver", or "name==ver ; marker"
Dep(n, v, m) == [kind |-> "pin", name |-> n, ver |-> v, marker |-> m]

\* "-e .", or "-e . ; marker"
Editable(m) == [kind |-> "edit", name |-> "-e", ver |-> 0, marker |-> m]

\* "# text"
Comment == [kind |-> "note", name |-> "#", ver |-> 0, marker |-> FALSE]

\* a line with nothing on it
Empty == [kind |-> "blank", name |-> "", ver |-> 0, marker |-> FALSE]

\* what get_package_name_from_line returns when the pattern does not match
None == ""

\* re.match(r'^(-e\s+)?([a-zA-Z0-9\-_]+)', line.strip()): group 2 stops at
\* '.', '=' and ' '; on "-e ." the optional group gives way and group 2 is
\* "-e"; a line that starts with '#', and an empty one, do not match
get_package_name_from_line(l) ==
    IF l.kind = "edit" THEN "-e"
    ELSE IF l.kind \in {"note", "blank"} THEN None
    ELSE IF l.name = "a.x" THEN "a"
    ELSE l.name

\* str.lower
lower(n) == IF n = "A" THEN "a" ELSE n

\* faulty variant: the line is returned as it is
clean_line_keeping_markers(l) == l

\* clean_line_for_golden_record: a line that starts with "-e" is returned
\* stripped of outer blanks only; of any other line the part before the
\* first ';'
clean_line_for_golden_record(l) ==
    IF l.kind = "edit" THEN l ELSE [l EXCEPT !.marker = FALSE]

\* the place of a line's text in the order of str: '#' < '-' < 'A' < 'a',
\* "a.x==" < "a==" ('.' < '='), and a text before its own continuation
TextKey(l) ==
    (CASE l.kind = "blank" -> 0
       [] l.kind = "note" -> 1
       [] l.kind = "edit" -> 2
       [] l.name = "A" -> 3
       [] l.name = "a.x" -> 4
       [] l.name = "a" -> 5
       [] OTHER -> 6) * 100 + l.ver * 2 + (IF l.marker THEN 1 ELSE 0)

\* sorted(lines): stable, ascending
sorted(s) ==
    LET before(i) == {j \in 1..Len(s) :
                        \/ TextKey(s[j]) < TextKey(s[i])
                        \/ TextKey(s[j]) = TextKey(s[i]) /\ j < i}
    IN  [k \in 1..Len(s) |->
            s[CHOOSE i \in 1..Len(s) : Cardinality(before(i)) = k - 1]]

\* [line.strip() for line in f if line.strip() and not
\*  line.strip().startswith('#')] (line 37)
ideal_deps_lines(f) ==
    SelectSeq(f.lines, LAMBDA l : l.kind \notin {"blank", "note"})

\* {get_package_name_from_line(line) for line in f if line.strip()} (line 55)
golden_package_names(f) ==
    {get_package_name_from_line(f.lines[i]) :
        i \in {j \in 1..Len(f.lines) : f.lines[j].kind # "blank"}}

\* golden_record_path.stat().st_size == 0
IsEmptyFile(f) == f.lines = <<>> /\ ~f.nl

\* lines 57-72 on a golden record that exists and is not empty.  The test of
\* line 61 walks the set of names in the set's own order and calls lower()
\* on each; seen is what stands before None in that order (every name, when
\* None is not in the set).  The walk stops at a match; when it comes to
\* None it raises AttributeError, and nothing has been written by then.
reconcile_existing(golden, ideal, seen) ==
    LET lines == ideal_deps_lines(ideal)
        known == {lower(n) : n \in seen}
        hit(l) == /\ get_package_name_from_line(l) # None
                  /\ lower(get_package_name_from_line(l)) \notin known
        raised == /\ None \in golden_package_names(golden)
                  /\ \E i \in 1..Len(lines) : hit(lines[i])
        new_deps_to_add ==
            [i \in 1..Len(SelectSeq(lines, hit)) |->
                clean_line_for_golden_record(SelectSeq(lines, hit)[i])]
    IN  IF raised THEN [pc |-> "crashed", golden |-> golden]
        ELSE IF new_deps_to_add = <<>> THEN [pc |-> "done", golden |-> golden]
        ELSE [pc |-> "done",
              golden |-> [exists |-> TRUE, nl |-> FALSE,
                          lines |-> golden.lines
                                      \o (IF golden.nl THEN <<Empty>> ELSE <<>>)
                                      \o sorted(new_deps_to_add)]]

\* lines 41-51: the golden record is missing or empty and is written anew
create_golden_record(ideal) ==
    LET lines == ideal_deps_lines(ideal)
    IN  [exists |-> TRUE, nl |-> FALSE,
         lines |-> sorted([i \in 1..Len(lines) |->
                              clean_line_for_golden_record(lines[i])])]

GoldenLines ==
    {Dep("a", 1, FALSE), Dep("A", 1, FALSE), Dep("a.x", 1, FALSE),
     Editable(FALSE), Comment, Empty}

IdealLines ==
    {Dep("a", 2, TRUE), Dep("A", 2, FALSE), Dep("a.x", 1, FALSE),
     Dep("b", 1, TRUE), Dep("b", 2, FALSE), Editable(TRUE), Comment}

\* the files that can be on disk: a text that ends with a newline has a
\* line before it.  Every line of the ideal state is stripped when read, so
\* whether its text ends with a newline is left out.
TextFiles(L) ==
    {NoFile} \cup
    ({[exists |-> TRUE, nl |-> nl, lines |-> ls] :
         nl \in BOOLEAN,
         ls \in UNION {[1..n -> L] : n \in 0..MaxRecord}}
     \ {[exists |-> TRUE, nl |-> TRUE, lines |-> <<>>]})

ReconcileInit ==
    /\ golden_record \in TextFiles(GoldenLines)
    /\ ideal_state \in {f \in TextFiles(IdealLines) : ~f.nl}
    /\ golden_before = NoFile
    /\ pc = "reconcile"
    /\ freeze_output = <<>>
    /\ pruned = <<>>
    /\ requirements = NoFile
    /\ pypi = [h \in Heads |-> [stable |-> {}, pre |-> {}]]
    /\ uninstallable = {}
    /\ invalid = {}
    /\ clash = "none"
    /\ primary_packages = {}
    /\ usage_scores = [h \in Heads |-> 0]
    /\ metrics = "ALL TESTS PASSED"
    /\ summary_quota = FALSE
    /\ legacy_versions = FALSE
    /\ metrics_file = NoMetricsFile
    /\ NothingDoneYet

\* reconcile_requirements (lines 25-72)
ReconcileRequirements ==
    /\ pc = "reconcile"
    /\ golden_before' = golden_record
    /\ IF ~ideal_state.exists
       THEN pc' = "exited" /\ UNCHANGED golden_record
       ELSE IF ~golden_record.exists \/ IsEmptyFile(golden_record)
       THEN /\ golden_record' = create_golden_record(ideal_state)
            /\ pc' = "done"
       ELSE \E seen \in SUBSET (golden_package_names(golden_record) \ {None}) :
               /\ None \notin golden_package_names(golden_record)
                     => seen = golden_package_names(golden_record)
               /\ \E r \in {reconcile_existing(golden_record, ideal_state, seen)} :
                     /\ golden_record' = r.golden
                     /\ pc' = r.pc
    /\ UNCHANGED <<requirements, pass_baseline, temp_venv, pass_num,
                   packages_to_update, idx, changed_packages_this_pass,
                   pass_successful_updates, final_successful_updates,
                   final_failed_updates, llm_available, oracle_query, summary,
                   version_candidates, versions, world, attempts, pre_run,
                   pass_start, commit, health, heal, prune_io, metrics_file,
                   ideal_state>>

ReconcileNext == ReconcileRequirements

ReconcileSpec == ReconcileInit /\ [][ReconcileNext]_vars

\* reconcile_requirements has run on a golden record that existed and was
\* not empty
ReconciledExisting ==
    /\ pc \in {"done", "crashed", "exited"}
    /\ golden_before.exists
    /\ ~IsEmptyFile(golden_before)

\* the lines of the golden record after the ones it had before
Appended ==
    SubSeq(golden_record.lines, Len(golden_before.lines) + 1,
           Len(golden_record.lines))

\* the package of line l has a line in the golden record as it was, names
\* compared without regard to case
AlreadyPresent(l) ==
    \E i \in 1..Len(golden_before.lines) :
        /\ get_package_name_from_line(golden_before.lines[i]) # None
        /\ lower(get_package_name_from_line(golden_before.lines[i]))
              = lower(get_package_name_from_line(l))

\* the lines of the ideal state that name a package
IdealDeps ==
    {ideal_state.lines[i] :
        i \in {j \in 1..Len(ideal_state.lines) :
                 ideal_state.lines[j].kind \in {"pin", "edit"}}}

\* line l without its environment marker
MarkerStripped(l) == [l EXCEPT !.marker = FALSE]

====
